---- MODULE Spec2Model ----
(***************************************************************************)
(* Model of src/app.py (Joy healer): credential resolution, the zodiac     *)
(* classifier, the prompt builder, the completion client and the session   *)
(* state machine driven by the sidebar form, the reset button and the      *)
(* chat input.                                                             *)
(*                                                                         *)
(* Python str values are TLA+ strings (concatenation is \o).  The source's *)
(* Chinese literals are rendered in ASCII; each definition quotes the      *)
(* literal it stands for.  Python's None is the value None below.          *)
(***************************************************************************)
EXTENDS Integers, Sequences, FiniteSets, TLC

VARIABLES
    MY_API_KEY,     \* the module global set from get_api_key() at line 24
    user_info,      \* st.session_state.user_info (a dict)
    messages,       \* st.session_state.messages (a list of dicts)
    system_prompt,  \* st.session_state.system_prompt
    st_error,       \* what st.error surfaced in the latest script run
    pc,             \* where the script is: waiting for a UI event, or inside the remote call
    network,        \* completion requests in flight
    sent,           \* number of completion requests issued so far
    ai_reply,       \* the value get_ai_response returned last
    event           \* the UI event handled last, with the session state it found

vars == <<MY_API_KEY, user_info, messages, system_prompt, st_error, pc,
          network, sent, ai_reply, event>>

-----------------------------------------------------------------------------
(* Bounds of the model *)

\* completion requests issued in one behaviour
MaxTurns == 2

-----------------------------------------------------------------------------
(* Python values *)

\* Python's None; no string the inputs range over equals it
None == "<None>"

\* bool(v) of a str-or-None value
Truthy(v) == v # None /\ v # ""

\* {} (an empty dict)
EmptyDict == [k \in {} |-> ""]

\* d.get(k, default)
Get(d, k, default) == IF k \in DOMAIN d THEN d[k] ELSE default

\* bool(d) of a dict
DictTruthy(d) == DOMAIN d # {}

-----------------------------------------------------------------------------
(* Literals of the source *)

\* "https://api.deepseek.com"
MY_BASE_URL == "https://api.deepseek.com"

\* "deepseek-chat"
MY_MODEL_NAME == "deepseek-chat"

\* The fixed persona template (lines 44-58), abbreviated
SYSTEM_PROMPT == "\n[persona Joy]\n"

\* "朋友"
FriendName == "friend"

\* "❌ API Key 未配置，无法连接服务。"
ConfigErrorReply == "[X] API Key not configured, cannot connect."

\* "❌ 连接波动: "
ErrorMarker == "[X] connection trouble: "

\* "\n请检查 API Key 是否填对，或者余额是否充足。"
ErrorAdvice == "\nPlease check the API Key or the balance."

\* "⚠️ API Key 未配置！"
ApiKeyMissingError == "API Key not configured!"

\* "请至少选择你的星座！"
ValidationError == "Please select at least your constellation!"

\* ['白羊', '狮子', '射手']
fire_signs == {"Aries", "Leo", "Sagittarius"}
\* ['巨蟹', '天蝎', '双鱼']
water_signs == {"Cancer", "Scorpio", "Pisces"}
\* ['金牛', '处女', '摩羯']
earth_signs == {"Taurus", "Virgo", "Capricorn"}
\* air_signs with one label misspelt
air_signs_Misspelt == {"Gemini", "Libra", "Aquarious"}

\* ['双子', '天秤', '水瓶']
air_signs == {"Gemini", "Libra", "Aquarius"}

\* ['白羊', '金牛', '双子', '巨蟹', '狮子', '处女', '天秤', '天蝎', '射手', '摩羯', '水瓶', '双鱼']
constellation_options ==
    <<"Aries", "Taurus", "Gemini", "Cancer", "Leo", "Virgo",
      "Libra", "Scorpio", "Sagittarius", "Capricorn", "Aquarius", "Pisces">>

\* options=[""] + constellation_options
SelectboxOptions == {""} \cup {constellation_options[i] : i \in DOMAIN constellation_options}

-----------------------------------------------------------------------------
(* Config resolver, lines 7-41 *)

\* How the lookup st.secrets.deepseek.api_key can go: the store is missing (the
\* access raises), it has no 'deepseek' group, the group is not a table (the
\* membership test raises), the group has no 'api_key', or the key is there.
SecretKinds == {"no_store", "no_group", "malformed", "no_key", "ok"}

\* get_api_key(), reading st.secrets (`secrets`) and os.getenv('DEEPSEEK_API_KEY')
\* (`env`): secrets first (a failed lookup is swallowed), then the environment
get_api_key(secrets, env) ==
    IF secrets.kind = "ok"
    THEN secrets.api_key
    ELSE LET api_key == env
         IN  IF Truthy(api_key) THEN api_key ELSE None

\* OpenAI(api_key=..., base_url=...): the client handle
OpenAI(api_key, base_url) == "OpenAI(" \o api_key \o "," \o base_url \o ")"

\* get_client()
get_client ==
    IF ~Truthy(MY_API_KEY)
    THEN None
    ELSE OpenAI(MY_API_KEY, MY_BASE_URL)

\* client = get_client()
client == get_client

-----------------------------------------------------------------------------
(* Zodiac classifier and prompt builder, lines 60-110 *)

\* get_constellation_element(constellation); the results stand for
\* "火象星座", "水象星座", "土象星座", "风象星座", "未知元素"
get_constellation_element(constellation) ==
    IF constellation \in fire_signs THEN "fire sign"
    ELSE IF constellation \in water_signs THEN "water sign"
    ELSE IF constellation \in earth_signs THEN "earth sign"
    ELSE IF constellation \in air_signs THEN "air sign"
    ELSE "unknown element"

\* The lines of astro_info: "用户姓名：", "\n星座：", "\n星座元素：",
\* "\n出生日期：", "\n出生时间："
NameLine(name) == "user name: " \o name
ConstellationLine(constellation) == "\nconstellation: " \o constellation
ElementLine(element) == "\nelement: " \o element
BirthDateLine(birth_date) == "\nbirth date: " \o birth_date
BirthTimeLine(birth_time) == "\nbirth time: " \o birth_time

\* astro_info of build_system_prompt, lines 87-93
astro_info(name, constellation, element, birth_date, birth_time) ==
    NameLine(name) \o ConstellationLine(constellation)
    \o (IF Truthy(element) THEN ElementLine(element) ELSE "")
    \o (IF Truthy(birth_date) THEN BirthDateLine(birth_date) ELSE "")
    \o (IF Truthy(birth_time) THEN BirthTimeLine(birth_time) ELSE "")

\* build_system_prompt quoting the birth date a second time, in the requirements
build_system_prompt_DateInRequirements(info) ==
    LET name == Get(info, "name", FriendName)
        constellation == Get(info, "constellation", "")
        birth_date == Get(info, "birth_date", "")
        birth_time == Get(info, "birth_time", "")
        element == get_constellation_element(constellation)
    IN  SYSTEM_PROMPT
        \o "\n\n[user chart]\n"
        \o astro_info(name, constellation, element, birth_date, birth_time)
        \o "\n\n[requirements]\n1. use the constellation traits.\n2. if "
        \o constellation \o " (" \o element \o "), use its typical traits:\n"
        \o "   - fire: action, passion, directness\n"
        \o "   - water: feeling, intuition, sensitivity\n"
        \o "   - earth: practical, stable\n"
        \o "   - air: rational, communicative, flexible\n"
        \o "3. mention star energy.\n4. address the user as 'dear "
        \o name \o "' born " \o birth_date \o ".\n"

\* build_system_prompt(user_info), lines 77-110 (the fixed text abbreviated)
build_system_prompt(info) ==
    LET name == Get(info, "name", FriendName)
        constellation == Get(info, "constellation", "")
        birth_date == Get(info, "birth_date", "")
        birth_time == Get(info, "birth_time", "")
        element == get_constellation_element(constellation)
    IN  SYSTEM_PROMPT
        \o "\n\n[user chart]\n"
        \o astro_info(name, constellation, element, birth_date, birth_time)
        \o "\n\n[requirements]\n1. use the constellation traits.\n2. if "
        \o constellation \o " (" \o element \o "), use its typical traits:\n"
        \o "   - fire: action, passion, directness\n"
        \o "   - water: feeling, intuition, sensitivity\n"
        \o "   - earth: practical, stable\n"
        \o "   - air: rational, communicative, flexible\n"
        \o "3. mention star energy.\n4. address the user as 'dear "
        \o name \o "'.\n"

-----------------------------------------------------------------------------
(* Completion client, lines 121-133 *)

\* How client.chat.completions.create(...) and the read of
\* response.choices[0].message.content can end: a reply text, or an exception
\* whose str(e) is the text
OkOutcome(content) == [kind |-> "ok", text |-> content]
RaiseOutcome(text) == [kind |-> "raise", text |-> text]

\* the request the call carries: model, messages, stream=False
CompletionRequest(msgs) == [model |-> MY_MODEL_NAME, messages |-> msgs, stream |-> FALSE]

\* get_ai_response returning str(e) alone, without the marker and the advice
get_ai_response_BareError(user_input, msgs, outcome) ==
    IF ~Truthy(client)
    THEN [request |-> <<>>, ret |-> ConfigErrorReply]
    ELSE [request |-> <<CompletionRequest(msgs)>>, ret |-> outcome.text]

\* get_ai_response without the `if not client` early return
get_ai_response_NoClientCheck(user_input, msgs, outcome) ==
    [request |-> <<CompletionRequest(msgs)>>,
     ret |-> IF outcome.kind = "ok"
             THEN outcome.text
             ELSE ErrorMarker \o outcome.text \o ErrorAdvice]

\* get_ai_response(user_input, messages): the requests it performs and the
\* value it returns when the remote call ends with `outcome`
get_ai_response(user_input, msgs, outcome) ==
    IF ~Truthy(client)
    THEN [request |-> <<>>, ret |-> ConfigErrorReply]
    ELSE [request |-> <<CompletionRequest(msgs)>>,
          ret |-> IF outcome.kind = "ok"
                  THEN outcome.text
                  ELSE ErrorMarker \o outcome.text \o ErrorAdvice]

-----------------------------------------------------------------------------
(* Inputs the model draws from *)

\* what the secret store can hold and how its lookup can go
SecretStates ==
    {[kind |-> k, api_key |-> None] : k \in SecretKinds \ {"ok"}}
    \cup {[kind |-> "ok", api_key |-> v] : v \in {"", "sk-secret"}}

\* os.getenv: None when the variable is unset
EnvStates == {None, "", "sk-env"}

\* what the user can type into the form
NameInputs == {"", "Alex"}
BirthDateInputs == {"", "1990-08-01"}
BirthTimeInputs == {"", "08:30"}

\* what st.chat_input can hand to the script
ChatInputs == {"", "I feel anxious", "thank you"}

\* how the remote call can end
Outcomes ==
    {OkOutcome("dim the bedroom light tonight"),
     RaiseOutcome("Connection error.")}

\* no outcome yet
Pending == [kind |-> "pending", text |-> ""]

-----------------------------------------------------------------------------
(* Session state, lines 112-119 *)

\* the session fields an event handler finds
Snapshot ==
    [user_info |-> user_info, messages |-> messages,
     system_prompt |-> system_prompt, sent |-> sent]

\* the states of the session state machine
Phase ==
    IF Len(messages) > 1 THEN "Conversing"
    ELSE IF Len(messages) = 1 THEN "ProfileConfirmed"
    ELSE "Empty"

\* init_session_state() on a fresh session
init_session_state ==
    /\ user_info = EmptyDict
    /\ messages = <<>>
    /\ system_prompt = None

Init ==
    /\ \E secrets \in SecretStates, env \in EnvStates :
          MY_API_KEY = get_api_key(secrets, env)
    /\ init_session_state
    /\ st_error = None
    /\ pc = "idle"
    /\ network = <<>>
    /\ sent = 0
    /\ ai_reply = None
    /\ event = [kind |-> "start"]

-----------------------------------------------------------------------------
(* The script, lines 142-285: one run per UI event *)

\* the script without its st.stop()
Stopped_Never == FALSE

\* line 146: `if not MY_API_KEY:` ... st.stop()
Stopped == ~Truthy(MY_API_KEY)

\* the form rendered whatever the stored profile
FormShown_Always == TRUE

\* line 186: the sidebar shows the profile form
FormShown == ~DictTruthy(user_info) \/ ~Truthy(Get(user_info, "constellation", None))

\* line 244: the main area shows the chat
ChatShown == DictTruthy(user_info) /\ Truthy(Get(user_info, "constellation", None))

\* lines 244 and 262: the chat input is rendered by a script waiting for an event
ChatAccepting == pc = "idle" /\ ~Stopped /\ ChatShown

\* A run with no widget event (page load, re-render): lines 143-175
Run ==
    /\ pc = "idle"
    /\ st_error' = IF Stopped THEN ApiKeyMissingError ELSE None
    /\ ai_reply' = None
    /\ event' = [kind |-> "run"]
    /\ UNCHANGED <<MY_API_KEY, user_info, messages, system_prompt, pc, network, sent>>

\* Confirm storing the profile and the prompt but not seeding the transcript
Confirm_NoSystemEntry(name_input, constellation, birth_date, birth_time) ==
    /\ pc = "idle"
    /\ ~Stopped
    /\ FormShown
    /\ LET name == IF ~Truthy(name_input) THEN FriendName ELSE name_input
           info == [name |-> name, constellation |-> constellation,
                    birth_date |-> birth_date, birth_time |-> birth_time]
       IN  IF Truthy(constellation)
           THEN /\ user_info' = info
                /\ system_prompt' = build_system_prompt(info)
                /\ messages' = <<>>
                /\ st_error' = None
           ELSE /\ st_error' = ValidationError
                /\ UNCHANGED <<user_info, system_prompt, messages>>
    /\ event' = [kind |-> "confirm", name |-> name_input, constellation |-> constellation,
                 birth_date |-> birth_date, birth_time |-> birth_time,
                 before |-> Snapshot]
    /\ ai_reply' = None
    /\ UNCHANGED <<MY_API_KEY, pc, network, sent>>

\* Confirm without the `if not name: name = ...` fallback
Confirm_NoNameFallback(name_input, constellation, birth_date, birth_time) ==
    /\ pc = "idle"
    /\ ~Stopped
    /\ FormShown
    /\ LET info == [name |-> name_input, constellation |-> constellation,
                    birth_date |-> birth_date, birth_time |-> birth_time]
       IN  IF Truthy(constellation)
           THEN /\ user_info' = info
                /\ system_prompt' = build_system_prompt(info)
                /\ messages' = <<[role |-> "system", content |-> build_system_prompt(info)]>>
                /\ st_error' = None
           ELSE /\ st_error' = ValidationError
                /\ UNCHANGED <<user_info, system_prompt, messages>>
    /\ event' = [kind |-> "confirm", name |-> name_input, constellation |-> constellation,
                 birth_date |-> birth_date, birth_time |-> birth_time,
                 before |-> Snapshot]
    /\ ai_reply' = None
    /\ UNCHANGED <<MY_API_KEY, pc, network, sent>>

\* Confirm without the `if constellation:` test
Confirm_NoValidation(name_input, constellation, birth_date, birth_time) ==
    /\ pc = "idle"
    /\ ~Stopped
    /\ FormShown
    /\ LET name == IF ~Truthy(name_input) THEN FriendName ELSE name_input
           info == [name |-> name, constellation |-> constellation,
                    birth_date |-> birth_date, birth_time |-> birth_time]
       IN  /\ user_info' = info
           /\ system_prompt' = build_system_prompt(info)
           /\ messages' = <<[role |-> "system", content |-> build_system_prompt(info)]>>
           /\ st_error' = None
    /\ event' = [kind |-> "confirm", name |-> name_input, constellation |-> constellation,
                 birth_date |-> birth_date, birth_time |-> birth_time,
                 before |-> Snapshot]
    /\ ai_reply' = None
    /\ UNCHANGED <<MY_API_KEY, pc, network, sent>>

\* The confirm button, lines 187-226
Confirm(name_input, constellation, birth_date, birth_time) ==
    /\ pc = "idle"
    /\ ~Stopped
    /\ FormShown
    /\ LET name == IF ~Truthy(name_input) THEN FriendName ELSE name_input
           info == [name |-> name, constellation |-> constellation,
                    birth_date |-> birth_date, birth_time |-> birth_time]
       IN  IF Truthy(constellation)
           THEN /\ user_info' = info
                /\ system_prompt' = build_system_prompt(info)
                /\ messages' = <<[role |-> "system", content |-> build_system_prompt(info)]>>
                /\ st_error' = None
           ELSE /\ st_error' = ValidationError
                /\ UNCHANGED <<user_info, system_prompt, messages>>
    /\ event' = [kind |-> "confirm", name |-> name_input, constellation |-> constellation,
                 birth_date |-> birth_date, birth_time |-> birth_time,
                 before |-> Snapshot]
    /\ ai_reply' = None
    /\ UNCHANGED <<MY_API_KEY, pc, network, sent>>

\* Reset forgetting system_prompt
Reset_KeepsPrompt ==
    /\ pc = "idle"
    /\ ~Stopped
    /\ ~FormShown
    /\ user_info' = EmptyDict
    /\ messages' = <<>>
    /\ st_error' = None
    /\ ai_reply' = None
    /\ event' = [kind |-> "reset", from |-> Phase]
    /\ UNCHANGED <<MY_API_KEY, system_prompt, pc, network, sent>>

\* Reset handled while the remote call is in flight
Reset_DuringCall ==
    /\ ~Stopped
    /\ ~FormShown
    /\ user_info' = EmptyDict
    /\ messages' = <<>>
    /\ system_prompt' = None
    /\ st_error' = None
    /\ ai_reply' = None
    /\ event' = [kind |-> "reset", from |-> Phase]
    /\ UNCHANGED <<MY_API_KEY, pc, network, sent>>

\* Reset clearing the profile but not the transcript
Reset_KeepsMessages ==
    /\ pc = "idle"
    /\ ~Stopped
    /\ ~FormShown
    /\ user_info' = EmptyDict
    /\ system_prompt' = None
    /\ st_error' = None
    /\ ai_reply' = None
    /\ event' = [kind |-> "reset", from |-> Phase]
    /\ UNCHANGED <<MY_API_KEY, messages, pc, network, sent>>

\* The reset button, lines 227-241
Reset ==
    /\ pc = "idle"
    /\ ~Stopped
    /\ ~FormShown
    /\ user_info' = EmptyDict
    /\ messages' = <<>>
    /\ system_prompt' = None
    /\ st_error' = None
    /\ ai_reply' = None
    /\ event' = [kind |-> "reset", from |-> Phase]
    /\ UNCHANGED <<MY_API_KEY, pc, network, sent>>

\* ChatInput calling get_ai_response before it appends the user entry
ChatInput_CallsBeforeAppend(prompt) ==
    /\ ChatAccepting
    /\ sent < MaxTurns
    /\ st_error' = None
    /\ IF Truthy(prompt)
       THEN LET with_user == Append(messages, [role |-> "user", content |-> prompt])
                call == get_ai_response(prompt, messages, Pending)
            IN  IF call.request # <<>>
                THEN /\ messages' = with_user
                     /\ network' = call.request
                     /\ sent' = sent + Len(call.request)
                     /\ pc' = "calling"
                     /\ ai_reply' = None
                ELSE /\ ai_reply' = call.ret
                     /\ messages' = Append(with_user,
                                           [role |-> "assistant", content |-> call.ret])
                     /\ UNCHANGED <<network, sent, pc>>
       ELSE /\ ai_reply' = None
            /\ UNCHANGED <<messages, network, sent, pc>>
    /\ event' = [kind |-> "chat", prompt |-> prompt, outcome |-> Pending,
                 before |-> Snapshot]
    /\ UNCHANGED <<MY_API_KEY, user_info, system_prompt>>

\* The chat input up to the remote call, lines 262-272 and 121-130
ChatInput(prompt) ==
    /\ ChatAccepting
    /\ sent < MaxTurns
    /\ st_error' = None
    /\ IF Truthy(prompt)
       THEN LET with_user == Append(messages, [role |-> "user", content |-> prompt])
                call == get_ai_response(prompt, with_user, Pending)
            IN  IF call.request # <<>>
                THEN /\ messages' = with_user
                     /\ network' = call.request
                     /\ sent' = sent + Len(call.request)
                     /\ pc' = "calling"
                     /\ ai_reply' = None
                ELSE /\ ai_reply' = call.ret
                     /\ messages' = Append(with_user,
                                           [role |-> "assistant", content |-> call.ret])
                     /\ UNCHANGED <<network, sent, pc>>
       ELSE /\ ai_reply' = None
            /\ UNCHANGED <<messages, network, sent, pc>>
    /\ event' = [kind |-> "chat", prompt |-> prompt, outcome |-> Pending,
                 before |-> Snapshot]
    /\ UNCHANGED <<MY_API_KEY, user_info, system_prompt>>

\* ChatReply showing the reply but not appending it to the history
ChatReply_DropsReply(outcome) ==
    /\ pc = "calling"
    /\ ai_reply' = get_ai_response(event.prompt, messages, outcome).ret
    /\ network' = <<>>
    /\ pc' = "idle"
    /\ event' = [event EXCEPT !.outcome = outcome]
    /\ UNCHANGED <<MY_API_KEY, user_info, messages, system_prompt, st_error, sent>>

\* ChatReply storing the reply over the last entry instead of appending it
ChatReply_ReplacesLast(outcome) ==
    /\ pc = "calling"
    /\ LET reply == get_ai_response(event.prompt, messages, outcome).ret
       IN  /\ ai_reply' = reply
           /\ messages' = [messages EXCEPT ![Len(messages)] =
                                [role |-> "assistant", content |-> reply]]
    /\ network' = <<>>
    /\ pc' = "idle"
    /\ event' = [event EXCEPT !.outcome = outcome]
    /\ UNCHANGED <<MY_API_KEY, user_info, system_prompt, st_error, sent>>

\* The remote call ends and the handler finishes, lines 131-133 and 273-276
ChatReply(outcome) ==
    /\ pc = "calling"
    /\ LET reply == get_ai_response(event.prompt, messages, outcome).ret
       IN  /\ ai_reply' = reply
           /\ messages' = Append(messages, [role |-> "assistant", content |-> reply])
    /\ network' = <<>>
    /\ pc' = "idle"
    /\ event' = [event EXCEPT !.outcome = outcome]
    /\ UNCHANGED <<MY_API_KEY, user_info, system_prompt, st_error, sent>>

Next ==
    \/ Run
    \/ \E n \in NameInputs, c \in SelectboxOptions,
          d \in BirthDateInputs, t \in BirthTimeInputs : Confirm(n, c, d, t)
    \/ Reset
    \/ \E p \in ChatInputs : ChatInput(p)
    \/ \E o \in Outcomes : ChatReply(o)

Spec == Init /\ [][Next]_vars

-----------------------------------------------------------------------------
(* get_ai_response applied to any transcript, lines 121-133 *)

\* longest transcript handed to get_ai_response
MaxTranscriptLen == 2

\* transcript entries get_ai_response may be handed
SampleMessages ==
    {[role |-> r, content |-> c] :
        r \in {"system", "user", "assistant"}, c \in {"", "I feel anxious"}}

\* transcripts of at most n entries
RECURSIVE Transcripts(_)
Transcripts(n) ==
    IF n = 0
    THEN {<<>>}
    ELSE Transcripts(n - 1)
         \cup {Append(t, m) : t \in {u \in Transcripts(n - 1) : Len(u) = n - 1},
                              m \in SampleMessages}

InitGetAiResponse ==
    /\ \E secrets \in SecretStates, env \in EnvStates :
          MY_API_KEY = get_api_key(secrets, env)
    /\ user_info = EmptyDict
    /\ messages \in Transcripts(MaxTranscriptLen)
    /\ system_prompt = None
    /\ st_error = None
    /\ pc = "idle"
    /\ network = <<>>
    /\ sent = 0
    /\ ai_reply = None
    /\ event = [kind |-> "start"]

\* ai_reply = get_ai_response(user_input, messages), the remote call ending with `outcome`
CallGetAiResponse(user_input, outcome) ==
    /\ pc = "idle"
    /\ LET call == get_ai_response(user_input, messages, outcome)
       IN  /\ ai_reply' = call.ret
           /\ network' = call.request
           /\ sent' = sent + Len(call.request)
    /\ pc' = "returned"
    /\ event' = [kind |-> "get_ai_response", user_input |-> user_input, outcome |-> outcome]
    /\ UNCHANGED <<MY_API_KEY, user_info, messages, system_prompt, st_error>>

NextGetAiResponse ==
    \E p \in ChatInputs, o \in Outcomes : CallGetAiResponse(p, o)

SpecGetAiResponse == InitGetAiResponse /\ [][NextGetAiResponse]_vars

-----------------------------------------------------------------------------
(* The pure functions of lines 7-110 applied to their inputs *)

\* strings handed to get_constellation_element: the twelve labels, the empty
\* string and strings that are no label
SignInputs == (SelectboxOptions \cup {"aries", "Ophiuchus", "Leo "})

\* birth dates handed to build_system_prompt
BirthDateSamples == BirthDateInputs \cup {"2001-12-31"}

\* dicts handed to build_system_prompt
ProfileInputs ==
    {EmptyDict}
    \cup {[name |-> n, constellation |-> c, birth_date |-> d, birth_time |-> t] :
            n \in NameInputs, c \in SignInputs,
            d \in BirthDateSamples, t \in BirthTimeInputs}

\* before line 24 has run
InitFunctions ==
    /\ MY_API_KEY = None
    /\ init_session_state
    /\ st_error = None
    /\ pc = "idle"
    /\ network = <<>>
    /\ sent = 0
    /\ ai_reply = None
    /\ event = [kind |-> "start"]

\* MY_API_KEY = get_api_key(), line 24
CallGetApiKey(secrets, env) ==
    /\ pc = "idle"
    /\ MY_API_KEY' = get_api_key(secrets, env)
    /\ event' = [kind |-> "get_api_key", secrets |-> secrets, env |-> env]
    /\ pc' = "returned"
    /\ UNCHANGED <<user_info, messages, system_prompt, st_error, network, sent, ai_reply>>

\* element = get_constellation_element(constellation), line 84
CallGetConstellationElement(constellation) ==
    /\ pc = "idle"
    /\ event' = [kind |-> "get_constellation_element", constellation |-> constellation,
                 element |-> get_constellation_element(constellation)]
    /\ pc' = "returned"
    /\ UNCHANGED <<MY_API_KEY, user_info, messages, system_prompt, st_error,
                   network, sent, ai_reply>>

\* system_prompt = build_system_prompt(user_info), line 220
CallBuildSystemPrompt(info) ==
    /\ pc = "idle"
    /\ user_info' = info
    /\ system_prompt' = build_system_prompt(info)
    /\ event' = [kind |-> "build_system_prompt"]
    /\ pc' = "returned"
    /\ UNCHANGED <<MY_API_KEY, messages, st_error, network, sent, ai_reply>>

NextFunctions ==
    \/ \E secrets \in SecretStates, env \in EnvStates : CallGetApiKey(secrets, env)
    \/ \E c \in SignInputs : CallGetConstellationElement(c)
    \/ \E info \in ProfileInputs : CallBuildSystemPrompt(info)

SpecFunctions == InitFunctions /\ [][NextFunctions]_vars

-----------------------------------------------------------------------------
(* Properties *)

\* s begins with p
StartsWith(s, p) == Len(s) >= Len(p) /\ SubSeq(s, 1, Len(p)) = p

\* the profile the confirm button stores for the form's inputs
FormProfile(e) ==
    [name |-> IF e.name = "" THEN FriendName ELSE e.name,
     constellation |-> e.constellation,
     birth_date |-> e.birth_date, birth_time |-> e.birth_time]

\* a chat turn that was accepted and has finished
TurnDone == event.kind = "chat" /\ Truthy(event.prompt) /\ pc = "idle"

\* C1: an accepted user turn leaves the transcript exactly two entries longer:
\* the old entries unchanged, then a user entry with the submitted text, then an
\* assistant entry with the completion result; entry 0 is still the system entry.
C1_TurnAppendsUserThenAssistant ==
    TurnDone =>
        LET old == event.before.messages
            n == Len(old)
        IN  /\ Len(messages) = n + 2
            /\ SubSeq(messages, 1, n) = old
            /\ messages[n + 1] = [role |-> "user", content |-> event.prompt]
            /\ messages[n + 2] = [role |-> "assistant", content |-> ai_reply]
            /\ event.outcome.kind = "ok" => ai_reply = event.outcome.text
            /\ messages[1] = [role |-> "system", content |-> system_prompt]
            /\ messages[1] = old[1]

C1_Witness ==
    /\ TurnDone
    /\ Len(messages) = 5
    /\ messages[4].role = "user"
    /\ messages[5].role = "assistant"

\* C2: a confirmation with a non-empty constellation, found in the Empty state,
\* leaves the transcript with exactly one entry, of role system, whose content is
\* the system prompt built from the confirmed profile.
C2_ConfirmSeedsSystemEntry ==
    (event.kind = "confirm" /\ event.constellation # "") =>
        /\ event.before.messages = <<>>
        /\ user_info = FormProfile(event)
        /\ messages = <<[role |-> "system",
                         content |-> build_system_prompt(FormProfile(event))]>>

C2_Witness ==
    /\ event.kind = "confirm"
    /\ event.constellation = "Leo"
    /\ event.name = "Alex"
    /\ Len(messages) = 1
    /\ messages[1].role = "system"

\* C3: a confirmation with an empty constellation changes none of profile,
\* transcript and system_prompt, leaves the session Empty and surfaces the
\* validation message, whatever the other fields hold.
C3_EmptyConstellationRejected ==
    (event.kind = "confirm" /\ event.constellation = "") =>
        /\ user_info = event.before.user_info
        /\ messages = event.before.messages
        /\ system_prompt = event.before.system_prompt
        /\ Phase = "Empty"
        /\ user_info = EmptyDict
        /\ st_error = ValidationError

C3_Witness ==
    /\ event.kind = "confirm"
    /\ event.constellation = ""
    /\ event.name = "Alex"
    /\ event.birth_date # ""
    /\ event.birth_time # ""
    /\ st_error = ValidationError

\* C4: after a reset, whatever state it found, the profile is empty, the
\* transcript is empty and system_prompt is absent.
C4_ResetClears ==
    event.kind = "reset" =>
        /\ user_info = EmptyDict
        /\ messages = <<>>
        /\ system_prompt = None
        /\ Phase = "Empty"

C4_Witness ==
    /\ event.kind = "reset"
    /\ event.from = "Conversing"
    /\ messages = <<>>

\* C5: when the remote call raises, the turn still ends with an assistant entry
\* whose content is the error marker followed by the error text; the session is
\* Conversing with the profile unchanged and the chat input is accepting.
C5_RemoteFailureBecomesReply ==
    (event.kind = "chat" /\ event.outcome.kind = "raise") =>
        LET last == messages[Len(messages)]
        IN  /\ pc = "idle"
            /\ Len(messages) = Len(event.before.messages) + 2
            /\ last.role = "assistant"
            /\ StartsWith(last.content, ErrorMarker \o event.outcome.text)
            /\ Phase = "Conversing"
            /\ user_info = event.before.user_info
            /\ system_prompt = event.before.system_prompt
            /\ ChatAccepting

C5_Witness ==
    /\ event.kind = "chat"
    /\ event.outcome = RaiseOutcome("Connection error.")
    /\ messages[Len(messages)].role = "assistant"
    /\ sent < MaxTurns
    /\ ENABLED ChatInput("thank you")

\* C6: with no credential resolved, get_ai_response returns the fixed
\* configuration-error string and sends no request, whatever the transcript.
C6_NoCredentialNoCall ==
    (event.kind = "get_ai_response" /\ ~Truthy(MY_API_KEY)) =>
        /\ ai_reply = ConfigErrorReply
        /\ network = <<>>
        /\ sent = 0

C6_Witness ==
    /\ event.kind = "get_ai_response"
    /\ MY_API_KEY = None
    /\ Len(messages) = 2
    /\ ai_reply = ConfigErrorReply

\* C7: while no credential is resolved the session fields keep their initial
\* values, only plain script runs happen, and no completion request is sent.
C7_NoCredentialNothingHappens ==
    ~Truthy(MY_API_KEY) =>
        /\ user_info = EmptyDict
        /\ messages = <<>>
        /\ system_prompt = None
        /\ sent = 0
        /\ network = <<>>
        /\ pc = "idle"
        /\ event.kind \in {"start", "run"}

C7_Witness ==
    /\ ~Truthy(MY_API_KEY)
    /\ event.kind = "run"
    /\ st_error = ApiKeyMissingError

\* C8: a turn sends exactly one completion request, after the user entry is
\* appended and before the assistant entry is; it carries the whole transcript
\* at that point: the system entry first, the earlier turns, the new user
\* message last.
C8_OneRequestCarriesTranscript ==
    /\ (event.kind = "chat" /\ Truthy(event.prompt)) =>
          sent = event.before.sent + 1
    /\ pc = "calling" =>
          LET old == event.before.messages
              carried == network[1].messages
          IN  /\ Len(network) = 1
              /\ network[1].model = MY_MODEL_NAME
              /\ messages = Append(old, [role |-> "user", content |-> event.prompt])
              /\ carried = messages
              /\ carried[1] = [role |-> "system", content |-> system_prompt]
              /\ SubSeq(carried, 1, Len(old)) = old
              /\ carried[Len(carried)] = [role |-> "user", content |-> event.prompt]
    /\ pc = "idle" => network = <<>>

C8_Witness ==
    /\ pc = "calling"
    /\ Len(network) = 1
    /\ Len(network[1].messages) = 4
    /\ network[1].messages[4].content = "thank you"

C10_ProfileSetOnce ==
    [][ChatShown =>
        \/ event'.kind = "reset"
        \/ /\ user_info' = user_info
           /\ system_prompt' = system_prompt]_vars

C10_Witness ==
    /\ event.kind = "confirm"
    /\ event.constellation # ""
    /\ sent > 0
    /\ ChatShown

\* xs is a prefix of ys
IsPrefix(xs, ys) == Len(xs) <= Len(ys) /\ SubSeq(ys, 1, Len(xs)) = xs

\* C11: every step that is not a reset leaves the transcript it found as a
\* prefix of the transcript after it.
C11_AppendOnlyExceptReset ==
    [][event'.kind # "reset" => IsPrefix(messages, messages')]_vars

C11_Witness ==
    /\ TurnDone
    /\ event.outcome.kind = "raise"
    /\ Len(messages) = 5
    /\ IsPrefix(event.before.messages, messages)
    /\ Len(event.before.messages) = 3

\* the documented element of each of the twelve labels
DocumentedElement ==
    [Aries |-> "fire sign", Leo |-> "fire sign", Sagittarius |-> "fire sign",
     Cancer |-> "water sign", Scorpio |-> "water sign", Pisces |-> "water sign",
     Taurus |-> "earth sign", Virgo |-> "earth sign", Capricorn |-> "earth sign",
     Gemini |-> "air sign", Libra |-> "air sign", Aquarius |-> "air sign"]

\* C12: get_constellation_element returns the documented element for each of
\* the twelve labels and the unknown element for every other string, the empty
\* string included.
C12_ClassifierTable ==
    event.kind = "get_constellation_element" =>
        event.element =
            IF event.constellation \in DOMAIN DocumentedElement
            THEN DocumentedElement[event.constellation]
            ELSE "unknown element"

C12_Witness ==
    /\ event.kind = "get_constellation_element"
    /\ event.constellation = "Aquarius"
    /\ event.element = "air sign"

\* sub occurs in s
Contains(s, sub) ==
    \E i \in 1..(Len(s) - Len(sub) + 1) : SubSeq(s, i, i + Len(sub) - 1) = sub

\* the prompt was built from a dict holding all four fields
BuiltFromFullProfile == event.kind = "build_system_prompt" /\ DictTruthy(user_info)

\* C13: the built prompt lists name and constellation, has the element line
\* exactly when the classifier's result is not the unknown element, and has the
\* birth-date line and the birth-time line exactly when the field is non-empty.
C13_ProfileBlockLines ==
    BuiltFromFullProfile =>
        /\ Contains(system_prompt, NameLine(user_info.name))
        /\ Contains(system_prompt, ConstellationLine(user_info.constellation))
        /\ Contains(system_prompt, "\nelement: ")
              <=> get_constellation_element(user_info.constellation) # "unknown element"
        /\ Contains(system_prompt, "\nbirth date: ") <=> user_info.birth_date # ""
        /\ Contains(system_prompt, "\nbirth time: ") <=> user_info.birth_time # ""

\* The part of C13 that holds: name and constellation are listed and each birth
\* line is there exactly when its field is non-empty.
C13_NameConstellationBirthLines ==
    BuiltFromFullProfile =>
        /\ Contains(system_prompt, NameLine(user_info.name))
        /\ Contains(system_prompt, ConstellationLine(user_info.constellation))
        /\ Contains(system_prompt, "\nbirth date: ") <=> user_info.birth_date # ""
        /\ Contains(system_prompt, "\nbirth time: ") <=> user_info.birth_time # ""

\* The element line is there whatever the classifier returned.
C13_ElementLineAlways ==
    BuiltFromFullProfile =>
        Contains(system_prompt,
                 ElementLine(get_constellation_element(user_info.constellation)))

\* what a credential source yields: its value when it holds a non-empty one
SecretStoreYields(secrets) ==
    IF secrets.kind = "ok" /\ Truthy(secrets.api_key) THEN secrets.api_key ELSE None
EnvironmentYields(env) == IF Truthy(env) THEN env ELSE None

\* C14: get_api_key returns what the secret store yields when it yields a
\* value, else what the environment variable yields, and returns no credential
\* only if neither yields a value.
C14_SecretsThenEnvironment ==
    event.kind = "get_api_key" =>
        LET stored == SecretStoreYields(event.secrets)
            exported == EnvironmentYields(event.env)
        IN  /\ stored # None => MY_API_KEY = stored
            /\ (stored = None /\ exported # None) => MY_API_KEY = exported
            /\ ~Truthy(MY_API_KEY) <=> (stored = None /\ exported = None)

\* The part of C14 that holds: a lookup that fails or finds no key falls
\* through to the environment variable, and then None is returned only when the
\* variable is unset or empty.
C14_FailedLookupFallsThrough ==
    (event.kind = "get_api_key" /\ event.secrets.kind # "ok") =>
        MY_API_KEY = EnvironmentYields(event.env)

\* the optional birth-date line of a profile block
OptionalBirthDateLine(birth_date) ==
    IF birth_date # "" THEN BirthDateLine(birth_date) ELSE ""

\* p and q are equal but for the piece at one place, which is a in p and b in q
DifferOnlyIn(p, q, a, b) ==
    \E k \in 0..(Len(p) - Len(a)) :
        /\ Len(q) = Len(p) - Len(a) + Len(b)
        /\ SubSeq(p, 1, k) = SubSeq(q, 1, k)
        /\ SubSeq(p, k + 1, k + Len(a)) = a
        /\ SubSeq(q, k + 1, k + Len(b)) = b
        /\ SubSeq(p, k + Len(a) + 1, Len(p)) = SubSeq(q, k + Len(b) + 1, Len(q))

\* C15: the prompt built from a profile and the prompt built from the same
\* profile with another birth date are equal but for the optional birth-date
\* line (and equal when the birth date is the same).
C15_BirthDateChangesOnlyItsLine ==
    BuiltFromFullProfile =>
        \A d \in BirthDateSamples :
            LET other == build_system_prompt([user_info EXCEPT !.birth_date = d])
            IN  /\ DifferOnlyIn(system_prompt, other,
                                OptionalBirthDateLine(user_info.birth_date),
                                OptionalBirthDateLine(d))
                /\ d = user_info.birth_date => other = system_prompt

C15_Witness ==
    /\ BuiltFromFullProfile
    /\ user_info.birth_date = "1990-08-01"
    /\ user_info.constellation = "Leo"
    /\ build_system_prompt([user_info EXCEPT !.birth_date = ""]) # system_prompt
    /\ build_system_prompt([user_info EXCEPT !.birth_date = "2001-12-31"]) # system_prompt

\* the twelve sign labels
TwelveSigns ==
    {"Aries", "Leo", "Sagittarius", "Cancer", "Scorpio", "Pisces",
     "Taurus", "Virgo", "Capricorn", "Gemini", "Libra", "Aquarius"}

\* C16: whenever a profile is confirmed its name is non-empty (an empty name
\* input was replaced by the fallback name) and its constellation is one of the
\* twelve sign labels.
C16_StoredProfileWellFormed ==
    /\ DictTruthy(user_info) =>
          /\ DOMAIN user_info = {"name", "constellation", "birth_date", "birth_time"}
          /\ user_info.name # ""
          /\ user_info.constellation \in TwelveSigns
    /\ (event.kind = "confirm" /\ event.constellation # "" /\ event.name = "") =>
          user_info.name = FriendName

C16_Witness ==
    /\ event.kind = "confirm"
    /\ event.name = ""
    /\ event.constellation = "Pisces"
    /\ user_info.name = FriendName
    /\ user_info.constellation = "Pisces"

\* C17: whenever the script waits for an event, the profile is complete iff the
\* transcript is non-empty iff system_prompt is present; a non-empty transcript
\* has odd length, entry 0 is its only system entry and holds the stored
\* system_prompt, and the later entries alternate user, assistant.
C17_SessionCoherent ==
    pc = "idle" =>
        /\ ChatShown <=> messages # <<>>
        /\ messages # <<>> <=> system_prompt # None
        /\ messages # <<>> =>
              /\ Len(messages) % 2 = 1
              /\ messages[1] = [role |-> "system", content |-> system_prompt]
              /\ \A i \in 2..Len(messages) :
                    messages[i].role = IF i % 2 = 0 THEN "user" ELSE "assistant"

C17_Witness ==
    /\ pc = "idle"
    /\ ChatShown
    /\ system_prompt # None
    /\ Len(messages) = 5
    /\ event.kind = "run"

====
